---- MODULE Spec2Model ----
(***************************************************************************)
(* ClipBot (vacation_clip_bot.py): scene detection with an on-disk cache,  *)
(* the per-scene clip renderer, the audio mixer, the directory walker and  *)
(* the background-music download.                                          *)
(*                                                                         *)
(* Times (scene bounds, clip lengths, modification times) are integers in  *)
(* milliseconds; a scene bound t stands for the double nearest t/1000 s,   *)
(* and the tests on scene lengths are those of double arithmetic.  A path  *)
(* is a sequence of components.                                            *)
(***************************************************************************)
EXTENDS Integers, Sequences, FiniteSets, TLC

\* ------------------------------------------------------------------ bounds
\* number of process_video / process_directory runs in one behaviour
MaxRuns == 2

\* ------------------------------------------------------- program constants
\* "if end_time - start_time < 1.0": one second, in milliseconds
MinSceneLen == 1000
\* max_clip: float = 12.0, in milliseconds
DefaultMaxClip == 12000
\* fade: float = 0.5, in milliseconds
DefaultFade == 500

\* ------------------------------------------------------------ input domains
\* values of --max-clip: 8 s and the default
MaxClips == {8000, DefaultMaxClip}
\* modification times of the source file
Mtimes == {1000, 1400, 2500}
\* scene lengths the detector finds in the versions of a source file:
\* no scene; one 8 s scene; 1 s, 0.3 s, 1 s (the third from 1.3 s to 2.3 s);
\* and 0.5 s, 8 s, 20 s
Contents == {<<>>, <<8000>>, <<1000, 300, 1000>>, <<500, 8000, 20000>>}

\* ------------------------------------------------------------------ helpers
RECURSIVE SumTo(_, _)
SumTo(durs, k) == IF k = 0 THEN 0 ELSE durs[k] + SumTo(durs, k - 1)

\* The detector's scene list: contiguous (start, end) pairs from 0.
SceneList(durs) ==
  IF durs = <<>> THEN <<>>
  ELSE [k \in 1..Len(durs) |-> <<SumTo(durs, k - 1), SumTo(durs, k)>>]

\* f"{st_mtime:.0f}": a float rounded to an integer, ties to even.
FormatMtime(m) ==
  LET q == m \div 1000
      r == m % 1000
  IN  IF r < 500 THEN q
      ELSE IF r > 500 THEN q + 1
      ELSE IF q % 2 = 0 THEN q ELSE q + 1

\* get_cache_path: <dir>/.clipbot_cache/<basename>_<mtime:.0f>.pkl
get_cache_path(dir, name, m) == <<dir, ".clipbot_cache", name, FormatMtime(m)>>

\* os.path.join(output_dir, f"{base_name}_clip{i+1}.mp4"), i the 1-based index
OutputPath(output_dir, base_name, i) == [dir |-> output_dir, base |-> base_name, clip |-> i]

\* ---- "end_time - start_time" on doubles
\* the fraction bits of a double
MantissaBits == 52

RECURSIVE Pow2(_)
Pow2(n) == IF n = 0 THEN 1 ELSE 2 * Pow2(n - 1)

\* the binary exponent of t/1000, t > 0: the e with 2^e <= t/1000 < 2^(e+1)
RECURSIVE ExpUp(_, _)
ExpUp(t, e) == IF t < 1000 * Pow2(e + 1) THEN e ELSE ExpUp(t, e + 1)
RECURSIVE ExpDown(_, _)
ExpDown(t, n) == IF t * Pow2(n) >= 1000 THEN 0 - n ELSE ExpDown(t, n + 1)
Exponent(t) == IF t >= 1000 THEN ExpUp(t, 0) ELSE ExpDown(t, 1)

\* the double of t/1000 is q / 2^Scale(t), q an integer of 53 bits
Scale(t) == MantissaBits - Exponent(t)

\* 2^k modulo 2000, by squaring
RECURSIVE PowMod(_)
PowMod(k) ==
  IF k = 0 THEN 1
  ELSE IF k % 2 = 1 THEN (2 * PowMod(k - 1)) % 2000
  ELSE LET h == PowMod(k \div 2) IN (h * h) % 2000

\* get_seconds(): the double of t/1000 minus t/1000, in units of
\* 1/(1000 * 2^Scale(t)); round to nearest, ties to the even q
RoundErr(t) ==
  IF t % 1000 = 0 THEN 0
  ELSE LET m == ((t % 2000) * PowMod(Scale(t))) % 2000
           r == m % 1000
       IN  IF r < 500 THEN 0 - r
           ELSE IF r > 500 THEN 1000 - r
           ELSE IF m >= 1000 THEN 500 ELSE 0 - 500

\* the scale of the exact difference of the doubles of start and end
DiffScale(start, end) == IF start > 0 THEN Scale(start) ELSE Scale(end)

\* that difference minus (end - start)/1000, in units of 1/(1000 * 2^DiffScale)
DiffErr(start, end) ==
  RoundErr(end) * Pow2(DiffScale(start, end) - Scale(end))
    - (IF start > 0 THEN RoundErr(start) ELSE 0)

\* err / (1000 * 2^DiffScale) is below -2^(sh - DiffScale), above 2^(sh - DiffScale)
Below(err, sh) == IF sh >= 0 THEN err < 0 - 1000 * Pow2(sh) ELSE err * Pow2(0 - sh) < 0 - 1000
Above(err, sh) == IF sh >= 0 THEN err > 1000 * Pow2(sh) ELSE err * Pow2(0 - sh) > 1000

\* "end_time - start_time < limit" on doubles, limit a whole number of
\* seconds: the difference is rounded to nearest, so it is under the limit
\* when the exact difference is more than half a step under it; the step
\* under a power of two is half the step above it
FloatLess(start, end, limit) ==
  IF end - start # limit THEN end - start < limit
  ELSE LET e == Exponent(limit)
       IN  Below(DiffErr(start, end),
                 DiffScale(start, end) + e - MantissaBits
                   - (IF limit = 1000 * Pow2(e) THEN 2 ELSE 1))

\* "end_time - start_time > limit" on doubles
FloatGreater(start, end, limit) ==
  IF end - start # limit THEN end - start > limit
  ELSE Above(DiffErr(start, end),
             DiffScale(start, end) + Exponent(limit) - MantissaBits - 1)

\* "if end_time - start_time < 1.0: continue"
TooShort(scene) == FloatLess(scene[1], scene[2], MinSceneLen)

\* mutant of ClampEnd: the clip is cut at max_clip from the start of the video
ClampEndAbsolute(scene, mc) ==
  IF FloatGreater(scene[1], scene[2], mc) THEN mc ELSE scene[2]

\* "if end_time - start_time > max_clip: end_time = start_time + max_clip"
ClampEnd(scene, mc) ==
  IF FloatGreater(scene[1], scene[2], mc) THEN scene[1] + mc ELSE scene[2]

\* "fade_duration = min(fade, video_clip.duration / 4)"
FadeDuration(start, end, fade) ==
  IF fade < (end - start) \div 4 THEN fade ELSE (end - start) \div 4

\* The file a path names: "out/./x" and "out/x" are one file.
Norm(path) == [path EXCEPT !.dir = SelectSeq(path.dir, LAMBDA c : c # ".")]

\* os.path.exists(output_path), fs the files on disk
Exists(path, fs) == Norm(path) \in fs

\* mutant of Reuse: the cache flag is read inverted
ReuseInverted(path, fs, uc) == Exists(path, fs) /\ ~uc

\* "if os.path.exists(output_path) and use_cache"
Reuse(path, fs, uc) == Exists(path, fs) /\ uc


\* ------------------------------------------------------------------- state
VARIABLES
  mtime,         \* st_mtime of the source video
  content,       \* scene lengths the detector finds in the source video now
  cache,         \* .clipbot_cache: cache path -> entry
  files,         \* output clip files that exist on disk
  pc,            \* position of the run of process_video
  runs,          \* runs started so far
  use_cache,     \* parameters of the current run
  max_clip,
  scene_list,    \* process_video's scene_list
  i,             \* 1-based index of the scene the loop is at
  output_files,  \* process_video's output_files
  rendered,      \* clips encoded by this run: [clip, start, end, fade, existed]
  log,           \* records logged by this run
  prev,          \* how the previous run went, whether the source was
                 \* modified between it and this run, and the cache entry
                 \* and output files this run started with
  touched        \* the source was modified since this run began

pvVars == <<mtime, content, cache, files, pc, runs, use_cache, max_clip,
            scene_list, i, output_files, rendered, log, prev, touched>>

VARIABLES
  recursive,     \* process_directory's parameters
  dir_use_cache,
  dir_files,     \* output clip files that exist on disk
  cache_dirs,    \* the .clipbot_cache directories in the input tree
  cache_files,   \* the cache files in them
  dir_runs,      \* runs of main started so far
  walk,          \* directories os.walk has still to yield
  root,          \* the directory os.walk yielded last
  pending,       \* files of root the loop has not reached yet
  calls,         \* the calls of process_video that returned or raised an
                 \* Exception: [video, output_dir, result]
  clips,         \* the clips process_video returned: [video, clip, path]
  last_clips,    \* len(clips) of the call of process_video that returned last
  total_clips,   \* process_directory's total_clips
  dir_pc,        \* position of the run of main
  exit_code,     \* the process's exit status, -1 while it runs, -2 when it
                 \* was ended by SIGINT
  reported       \* the total logged by "Processing complete!", -1 if none

dirVars == <<recursive, dir_use_cache, dir_files, cache_dirs, cache_files,
             dir_runs, walk, root, pending, calls, clips, last_clips,
             total_clips, dir_pc, exit_code, reported>>

VARIABLES
  has_audio,      \* video_clip.audio is not None
  music_path,     \* --music: "none", "missing" (no such file) or "file"
  music_clip,     \* process_video's music_clip is not None
  mute_original,
  volume,         \* music volume, in percent
  final_audio,    \* what process_audio returns: its streams, <<>> for None
  clip_audio,     \* the audio streams of video_clip, <<>> when it has none
  audio_pc

audioVars == <<has_audio, music_path, music_clip, mute_original, volume,
               final_audio, clip_audio, audio_pc>>

VARIABLES
  output_dir_exists, \* args.output_dir is a directory
  music_dir_exists,  \* <output_dir>/background_music is a directory
  tracks,            \* n with track_n.mp3 present in the music directory
  track,             \* 1-based index the download loop is at
  args_music,        \* args.music: "none", "given" or "track_1"
  download_music,    \* --download-music
  fetched,           \* tracks requests.get was called for
  opened,            \* tracks whose file was opened for writing
  music_log,         \* records logged by the download
  music_pc

musicVars == <<output_dir_exists, music_dir_exists, tracks, track, args_music,
               download_music, fetched, opened, music_log, music_pc>>

vars == <<pvVars, dirVars, audioVars, musicVars>>

notPv == <<dirVars, audioVars, musicVars>>
notDir == <<pvVars, audioVars, musicVars>>
notAudio == <<pvVars, dirVars, musicVars>>
notMusic == <<pvVars, dirVars, audioVars>>

\* the parts of the program a specification does not run stay as constructed
IdleDir ==
  /\ recursive = TRUE /\ dir_use_cache = TRUE /\ dir_files = {} /\ dir_runs = 0
  /\ cache_dirs = {} /\ cache_files = {} /\ last_clips = 0
  /\ walk = <<>> /\ root = <<>> /\ pending = {} /\ calls = <<>> /\ clips = {}
  /\ total_clips = 0 /\ dir_pc = "idle" /\ exit_code = -1 /\ reported = -1

IdleAudio ==
  /\ has_audio = FALSE /\ music_path = "none" /\ music_clip = FALSE
  /\ mute_original = FALSE /\ volume = 20
  /\ final_audio = <<>> /\ clip_audio = <<>> /\ audio_pc = "idle"

IdleMusic ==
  /\ output_dir_exists = FALSE /\ music_dir_exists = FALSE /\ tracks = {}
  /\ track = 1 /\ args_music = "none" /\ download_music = FALSE
  /\ fetched = {} /\ opened = {} /\ music_log = {} /\ music_pc = "idle"

\* the video of the single-video specifications and its output directory
Video == [dir |-> <<"in">>, name |-> "a.mp4", base |-> "a"]
OutDir == <<"out">>

CachePaths == {get_cache_path(Video.dir, Video.name, m) : m \in Mtimes}
NoEntry == [state |-> "absent", scenes |-> <<>>]
Corrupt == [state |-> "corrupt", scenes |-> <<>>]
Valid(sl) == [state |-> "valid", scenes |-> sl]

Rec(level, msg, n) == [level |-> level, msg |-> msg, scene |-> n]
UsingCached == Rec("info", "Using cached scene detection results", 0)
LoadFailed == Rec("warning", "Failed to load cached scenes", 0)
Detecting == Rec("info", "Detecting scenes", 0)
CachedTo == Rec("info", "Cached scene detection results", 0)
StoreFailed == Rec("warning", "Failed to cache scenes", 0)
NoScenes == Rec("warning", "No scenes detected", 0)
ClipExists(n) == Rec("info", "Clip already exists", n)
Created(n) == Rec("info", "Created clip", n)
SceneError(n) == Rec("error", "Error processing scene", n)

\* the steps of the per-scene try block that can raise
Stages == {"extract", "fade", "mix", "resize", "encode"}

Stopped == pc \in {"idle", "returned", "raised"}

CachePath == get_cache_path(Video.dir, Video.name, mtime)
Path == OutputPath(OutDir, Video.base, i)
Scene == scene_list[i]

InitRun ==
  /\ pc = "idle" /\ runs = 0
  /\ use_cache = TRUE /\ max_clip = DefaultMaxClip
  /\ scene_list = <<>> /\ i = 1 /\ output_files = <<>>
  /\ rendered = {} /\ log = {}
  /\ prev = [ran |-> FALSE, use_cache |-> FALSE, returned |-> FALSE,
             modified |-> FALSE, entry |-> FALSE, files |-> {}]
  /\ touched = FALSE

\* a fresh source video, no cache and an empty output directory
Init ==
  /\ mtime \in Mtimes /\ content \in Contents
  /\ cache = [p \in CachePaths |-> NoEntry]
  /\ files = {}
  /\ InitRun
  /\ IdleDir /\ IdleAudio /\ IdleMusic

\* process_video(video_path, output_dir, max_clip = mc, use_cache = uc) is called
StartRun(uc, mc) ==
  /\ Stopped /\ runs < MaxRuns
  /\ runs' = runs + 1
  /\ use_cache' = uc /\ max_clip' = mc
  /\ pc' = "lookup"
  /\ scene_list' = <<>> /\ i' = 1 /\ output_files' = <<>>
  /\ rendered' = {} /\ log' = {}
  /\ prev' = [ran |-> runs > 0, use_cache |-> use_cache,
              returned |-> pc = "returned", modified |-> touched,
              entry |-> cache[CachePath].state # "absent", files |-> files]
  /\ touched' = FALSE
  /\ UNCHANGED notPv
  /\ UNCHANGED <<mtime, content, cache, files>>

\* between runs the source video is rewritten or touched
Touch(m, c) ==
  /\ Stopped /\ runs > 0 /\ runs < MaxRuns
  /\ m # mtime
  /\ mtime' = m /\ content' = c /\ touched' = TRUE
  /\ UNCHANGED notPv
  /\ UNCHANGED <<cache, files, pc, runs, use_cache, max_clip, scene_list, i,
                 output_files, rendered, log, prev>>

\* detect_scenes: the cache entry exists and unpickles
detect_scenes_Cached ==
  /\ pc = "lookup" /\ use_cache /\ cache[CachePath].state = "valid"
  /\ log' = log \cup {UsingCached}
  /\ scene_list' = cache[CachePath].scenes
  /\ pc' = "detected"
  /\ UNCHANGED notPv
  /\ UNCHANGED <<mtime, content, cache, files, runs, use_cache, max_clip, i,
                 output_files, rendered, prev, touched>>

\* detect_scenes: the cache entry exists and open raises, or pickle.load
\* raises after "Using cached" was logged (on a truncated entry it always
\* does, on a whole one it may)
detect_scenes_LoadFails(step) ==
  /\ pc = "lookup" /\ use_cache /\ cache[CachePath].state # "absent"
  /\ step \in {"open", "load"}
  /\ log' = log \cup (IF step = "load" THEN {UsingCached} ELSE {}) \cup {LoadFailed}
  /\ pc' = "detect"
  /\ UNCHANGED notPv
  /\ UNCHANGED <<mtime, content, cache, files, runs, use_cache, max_clip,
                 scene_list, i, output_files, rendered, prev, touched>>

\* detect_scenes: caching is off or there is no entry
detect_scenes_NoEntry ==
  /\ pc = "lookup" /\ ~(use_cache /\ cache[CachePath].state # "absent")
  /\ pc' = "detect"
  /\ UNCHANGED notPv
  /\ UNCHANGED <<mtime, content, cache, files, runs, use_cache, max_clip,
                 scene_list, i, output_files, rendered, log, prev, touched>>

\* detect_scenes: the detection pass
detect_scenes_Detect ==
  /\ pc = "detect"
  /\ log' = log \cup {Detecting}
  /\ scene_list' = SceneList(content)
  /\ pc' = "store"
  /\ UNCHANGED notPv
  /\ UNCHANGED <<mtime, content, cache, files, runs, use_cache, max_clip, i,
                 output_files, rendered, prev, touched>>

\* detect_scenes: the detection pass raises; nothing up to process_video's
\* caller catches it
detect_scenes_Raises ==
  /\ pc = "detect"
  /\ log' = log \cup {Detecting}
  /\ pc' = "raised"
  /\ UNCHANGED notPv
  /\ UNCHANGED <<mtime, content, cache, files, runs, use_cache, max_clip,
                 scene_list, i, output_files, rendered, prev, touched>>

\* detect_scenes: pickle.dump of the fresh scene list
detect_scenes_Store ==
  /\ pc = "store" /\ use_cache
  /\ cache' = [cache EXCEPT ![CachePath] = Valid(scene_list)]
  /\ log' = log \cup {CachedTo}
  /\ pc' = "detected"
  /\ UNCHANGED notPv
  /\ UNCHANGED <<mtime, content, files, runs, use_cache, max_clip, scene_list,
                 i, output_files, rendered, prev, touched>>

\* mutant of detect_scenes_StoreFails: the write error is not caught
detect_scenes_StoreRaises ==
  /\ pc = "store" /\ use_cache
  /\ \E e \in {cache[CachePath], Corrupt} : cache' = [cache EXCEPT ![CachePath] = e]
  /\ log' = log \cup {StoreFailed}
  /\ pc' = "raised"
  /\ UNCHANGED notPv
  /\ UNCHANGED <<mtime, content, files, runs, use_cache, max_clip, scene_list,
                 i, output_files, rendered, prev, touched>>

\* detect_scenes: open(cache_path, "wb") raises (the entry is as it was) or
\* pickle.dump raises (the entry is truncated)
detect_scenes_StoreFails ==
  /\ pc = "store" /\ use_cache
  /\ \E e \in {cache[CachePath], Corrupt} : cache' = [cache EXCEPT ![CachePath] = e]
  /\ log' = log \cup {StoreFailed}
  /\ pc' = "detected"
  /\ UNCHANGED notPv
  /\ UNCHANGED <<mtime, content, files, runs, use_cache, max_clip, scene_list,
                 i, output_files, rendered, prev, touched>>

\* detect_scenes: caching is off, the scene list is returned as it is
detect_scenes_NoStore ==
  /\ pc = "store" /\ ~use_cache
  /\ pc' = "detected"
  /\ UNCHANGED notPv
  /\ UNCHANGED <<mtime, content, cache, files, runs, use_cache, max_clip,
                 scene_list, i, output_files, rendered, log, prev, touched>>

\* process_video: "if not scene_list: return output_files"
process_video_NoScenes ==
  /\ pc = "detected" /\ scene_list = <<>>
  /\ log' = log \cup {NoScenes}
  /\ pc' = "returned"
  /\ UNCHANGED notPv
  /\ UNCHANGED <<mtime, content, cache, files, runs, use_cache, max_clip,
                 scene_list, i, output_files, rendered, prev, touched>>

\* process_video: the scene loop starts
process_video_Loop ==
  /\ pc = "detected" /\ scene_list # <<>>
  /\ pc' = "scenes"
  /\ UNCHANGED notPv
  /\ UNCHANGED <<mtime, content, cache, files, runs, use_cache, max_clip,
                 scene_list, i, output_files, rendered, log, prev, touched>>

InLoop == pc = "scenes" /\ i <= Len(scene_list)

\* scene i: the output exists and caching is on
scene_Exists ==
  /\ InLoop /\ Reuse(Path, files, use_cache)
  /\ log' = log \cup {ClipExists(i)}
  /\ output_files' = Append(output_files, Path)
  /\ i' = i + 1
  /\ UNCHANGED notPv
  /\ UNCHANGED <<mtime, content, cache, files, pc, runs, use_cache, max_clip,
                 scene_list, rendered, prev, touched>>

\* scene i: under a second (logged at debug level, below the configured INFO)
scene_TooShort ==
  /\ InLoop /\ ~Reuse(Path, files, use_cache) /\ TooShort(Scene)
  /\ i' = i + 1
  /\ UNCHANGED notPv
  /\ UNCHANGED <<mtime, content, cache, files, pc, runs, use_cache, max_clip,
                 scene_list, output_files, rendered, log, prev, touched>>

\* scene i: extracted, faded, mixed, resized and encoded
scene_Render ==
  /\ InLoop /\ ~Reuse(Path, files, use_cache) /\ ~TooShort(Scene)
  /\ rendered' = rendered \cup {[clip |-> i, start |-> Scene[1],
                                 end |-> ClampEnd(Scene, max_clip),
                                 fade |-> FadeDuration(Scene[1], ClampEnd(Scene, max_clip),
                                                       DefaultFade),
                                 existed |-> Exists(Path, files)]}
  /\ files' = files \cup {Norm(Path)}
  /\ log' = log \cup {Created(i)}
  /\ output_files' = Append(output_files, Path)
  /\ i' = i + 1
  /\ UNCHANGED notPv
  /\ UNCHANGED <<mtime, content, cache, pc, runs, use_cache, max_clip,
                 scene_list, prev, touched>>

\* mutant of scene_Fails: the error leaves the loop and process_video
scene_FailsAborts(stage) ==
  /\ InLoop /\ ~Reuse(Path, files, use_cache) /\ ~TooShort(Scene)
  /\ stage \in Stages
  /\ log' = log \cup {SceneError(i)}
  /\ pc' = "raised"
  /\ UNCHANGED notPv
  /\ UNCHANGED <<mtime, content, cache, files, runs, use_cache, max_clip,
                 scene_list, i, output_files, rendered, prev, touched>>

\* scene i: a step of the try block raises; a failed encode may leave a file
scene_Fails(stage) ==
  /\ InLoop /\ ~Reuse(Path, files, use_cache) /\ ~TooShort(Scene)
  /\ \E left \in (IF stage = "encode" THEN {{}, {Norm(Path)}} ELSE {{}}) :
       files' = files \cup left
  /\ log' = log \cup {SceneError(i)}
  /\ i' = i + 1
  /\ UNCHANGED notPv
  /\ UNCHANGED <<mtime, content, cache, pc, runs, use_cache, max_clip,
                 scene_list, output_files, rendered, prev, touched>>

\* process_video: "return output_files"
process_video_Return ==
  /\ pc = "scenes" /\ i > Len(scene_list)
  /\ pc' = "returned"
  /\ UNCHANGED notPv
  /\ UNCHANGED <<mtime, content, cache, files, runs, use_cache, max_clip,
                 scene_list, i, output_files, rendered, log, prev, touched>>

Next ==
  \/ \E uc \in BOOLEAN, mc \in MaxClips : StartRun(uc, mc)
  \/ \E m \in Mtimes, c \in Contents : Touch(m, c)
  \/ detect_scenes_Cached
  \/ \E step \in {"open", "load"} : detect_scenes_LoadFails(step)
  \/ detect_scenes_NoEntry
  \/ detect_scenes_Detect
  \/ detect_scenes_Raises
  \/ detect_scenes_Store
  \/ detect_scenes_StoreFails
  \/ detect_scenes_NoStore
  \/ process_video_NoScenes
  \/ process_video_Loop
  \/ scene_Exists
  \/ scene_TooShort
  \/ scene_Render
  \/ \E stage \in Stages : scene_Fails(stage)
  \/ process_video_Return

Spec == Init /\ [][Next]_vars


\* ------------------------------------------- process_directory and main
\* VIDEO_EXTENSIONS
VIDEO_EXTENSIONS == {".mp4", ".mov", ".avi", ".mkv", ".wmv"}

\* the input tree: in/a.mp4, in/a.MOV, in/notes.txt and in/sub/deep/a.mkv;
\* rel is the directory relative to input_dir
Tree ==
  { [rel |-> <<>>, base |-> "a", ext |-> ".mp4"],
    [rel |-> <<>>, base |-> "a", ext |-> ".MOV"],
    [rel |-> <<>>, base |-> "notes", ext |-> ".txt"],
    [rel |-> <<"sub", "deep">>, base |-> "a", ext |-> ".mkv"] }

\* scene lengths the detector finds in the videos of the tree: no scene, or
\* 1.3 s then 1 s (from 1.3 s to 2.3 s)
DirContents == {<<>>, <<1300, 1000>>}

Prefix(s, n) == SubSeq(s, 1, n)
Dirs == UNION {{Prefix(f.rel, n) : n \in 0..Len(f.rel)} : f \in Tree}
\* get_cache_path: os.makedirs of <video dir>/.clipbot_cache
CacheDir(d) == d \o <<".clipbot_cache">>
\* the cache file of video f: "<name>_<mtime:.0f>.pkl" in that directory
CacheFile(f) ==
  [rel |-> CacheDir(f.rel),
   base |-> f.base \o f.ext \o "_" \o ToString(FormatMtime(mtime)),
   ext |-> ".pkl"]
\* the entries of directory d when os.walk lists it
SubDirs(d) == {e \in Dirs \cup cache_dirs : Len(e) = Len(d) + 1 /\ Prefix(e, Len(d)) = d}
FilesIn(d) == {f \in Tree \cup cache_files : f.rel = d}
Orderings(S) ==
  {s \in [1..Cardinality(S) -> S] : \A a, b \in 1..Cardinality(S) : a # b => s[a] # s[b]}

\* str.lower() on the extensions of the tree
Lower(e) == IF e = ".MOV" THEN ".mov" ELSE e

\* "if file.lower().endswith(VIDEO_EXTENSIONS)"
IsVideo(f) == Lower(f.ext) \in VIDEO_EXTENSIONS

\* os.path.relpath(root, input_dir)
RelPath(d) == IF d = <<>> THEN <<".">> ELSE d

\* clip_output_dir: output_dir/rel_path when recursive, output_dir when not
ClipOutputDir(d, rec) == IF rec THEN OutDir \o RelPath(d) ELSE OutDir

\* process_video's scene loop over scenes k.. of sl, writing into directory
\* dir with base name base; fs the files on disk, fail the scenes whose
\* rendering raises, left those of them whose failed encode leaves a file.
\* Gives the output_files appended and the files on disk.
RECURSIVE RunScenes(_, _, _, _, _, _, _, _)
RunScenes(sl, k, dir, base, fs, uc, fail, left) ==
  IF k > Len(sl) THEN [out |-> <<>>, files |-> fs]
  ELSE LET p == OutputPath(dir, base, k)
           tried == ~Reuse(p, fs, uc) /\ ~TooShort(sl[k])
           made == tried /\ k \notin fail
           kept == Reuse(p, fs, uc) \/ made
           written == made \/ (tried /\ k \in left)
           rest == RunScenes(sl, k + 1, dir, base,
                             IF written THEN fs \cup {Norm(p)} ELSE fs, uc, fail, left)
       IN  [out |-> (IF kept THEN <<[clip |-> k, path |-> p]>> ELSE <<>>) \o rest.out,
            files |-> rest.files]

Range(s) == {s[n] : n \in 1..Len(s)}
Walking == dir_pc \in {"walk", "files", "count", "return"}
\* main has not left yet: walking, or the total logged and main returning
Running == Walking \/ dir_pc = "reported"
\* inside a handler of the try around main()
Handling == dir_pc \in {"failing", "interrupting"}

\* main is started: process_directory(recursive = rec, use_cache = uc)
main_Start(rec, uc) ==
  /\ ~Running /\ ~Handling /\ dir_runs < MaxRuns
  /\ dir_runs' = dir_runs + 1
  /\ recursive' = rec /\ dir_use_cache' = uc
  /\ walk' = << <<>> >> /\ root' = <<>> /\ pending' = {}
  /\ calls' = <<>> /\ clips' = {} /\ last_clips' = 0 /\ total_clips' = 0
  /\ exit_code' = -1 /\ reported' = -1
  /\ dir_pc' = "walk"
  /\ UNCHANGED <<dir_files, cache_dirs, cache_files>>
  /\ UNCHANGED notDir

\* os.walk yields the next directory, top-down
walk_Yield ==
  /\ dir_pc = "walk" /\ walk # <<>>
  /\ root' = Head(walk)
  /\ pending' = FilesIn(Head(walk))
  /\ \E order \in Orderings(SubDirs(Head(walk))) : walk' = order \o Tail(walk)
  /\ dir_pc' = "files"
  /\ UNCHANGED <<recursive, dir_use_cache, last_clips, cache_dirs, cache_files,
                 dir_files, dir_runs, calls, clips,
                 total_clips, exit_code, reported>>
  /\ UNCHANGED notDir

\* "for file in files": a file that is no video
file_NotVideo(f) ==
  /\ dir_pc = "files" /\ f \in pending /\ ~IsVideo(f)
  /\ pending' = pending \ {f}
  /\ UNCHANGED <<recursive, dir_use_cache, last_clips, cache_dirs, cache_files,
                 dir_files, dir_runs, walk, root,
                 calls, clips, total_clips, dir_pc, exit_code, reported>>
  /\ UNCHANGED notDir

\* "for file in files": "clips = process_video(...)" on a video returns; durs is what
\* detect_scenes returned (from the cache or from a detection pass), fail
\* the scenes whose rendering raised, left those whose encode left a file,
\* stored whether the cache file was opened for writing
file_Video(f, durs, fail, left, stored) ==
  /\ dir_pc = "files" /\ f \in pending /\ IsVideo(f)
  /\ fail \subseteq 1..Len(durs) /\ left \subseteq fail
  /\ stored => dir_use_cache
  /\ cache_dirs' = cache_dirs \cup {CacheDir(f.rel)}
  /\ cache_files' = cache_files \cup (IF stored THEN {CacheFile(f)} ELSE {})
  /\ LET dir == ClipOutputDir(root, recursive)
         res == RunScenes(SceneList(durs), 1, dir, f.base, dir_files,
                          dir_use_cache, fail, left)
     IN  /\ calls' = Append(calls, [video |-> f, output_dir |-> dir, result |-> "returned"])
         /\ dir_files' = res.files
         /\ clips' = clips \cup {[video |-> f, clip |-> c.clip, path |-> c.path] :
                                  c \in Range(res.out)}
         /\ last_clips' = Len(res.out)
  /\ pending' = pending \ {f}
  /\ dir_pc' = "count"
  /\ UNCHANGED <<recursive, dir_use_cache, dir_runs, walk, root, total_clips,
                 exit_code, reported>>
  /\ UNCHANGED notDir

\* "total_clips += len(clips)"
file_Count ==
  /\ dir_pc = "count"
  /\ total_clips' = total_clips + last_clips
  /\ dir_pc' = "files"
  /\ UNCHANGED <<recursive, dir_use_cache, last_clips, cache_dirs, cache_files,
                 dir_files, dir_runs, walk, root, pending, calls, clips,
                 exit_code, reported>>
  /\ UNCHANGED notDir

\* KeyboardInterrupt inside a call of process_video, which "except Exception"
\* does not catch: n scenes were reached, the n-th being processed when it
\* arrived (n = 0: during scene detection); it reaches "except
\* KeyboardInterrupt" around main()
file_VideoInterrupted(f, durs, fail, left, stored, n) ==
  /\ dir_pc = "files" /\ f \in pending /\ IsVideo(f)
  /\ n \in 0..Len(durs)
  /\ fail \subseteq 1..n /\ left \subseteq fail /\ (n > 0 => n \in fail)
  /\ stored => dir_use_cache
  /\ cache_dirs' = cache_dirs \cup {CacheDir(f.rel)}
  /\ cache_files' = cache_files \cup (IF stored THEN {CacheFile(f)} ELSE {})
  /\ dir_files' = RunScenes(Prefix(SceneList(durs), n), 1,
                            ClipOutputDir(root, recursive), f.base, dir_files,
                            dir_use_cache, fail, left).files
  /\ dir_pc' = "interrupting"
  /\ UNCHANGED <<recursive, dir_use_cache, last_clips, dir_runs, walk, root, pending,
                 calls, clips, total_clips, exit_code, reported>>
  /\ UNCHANGED notDir

\* mutant of file_VideoRaises: the failing video is skipped and the walk goes on
file_VideoSkipped(f) ==
  /\ dir_pc = "files" /\ f \in pending /\ IsVideo(f)
  /\ cache_dirs' = cache_dirs \cup {CacheDir(f.rel)}
  /\ calls' = Append(calls, [video |-> f, output_dir |-> ClipOutputDir(root, recursive),
                             result |-> "raised"])
  /\ pending' = pending \ {f}
  /\ UNCHANGED <<recursive, dir_use_cache, last_clips, cache_files, dir_files, dir_runs,
                 walk, root, clips, total_clips, dir_pc, exit_code, reported>>
  /\ UNCHANGED notDir

\* "for file in files": scene detection raises inside process_video, after
\* get_cache_path; nothing catches it before "except Exception" around main()
file_VideoRaises(f) ==
  /\ dir_pc = "files" /\ f \in pending /\ IsVideo(f)
  /\ cache_dirs' = cache_dirs \cup {CacheDir(f.rel)}
  /\ calls' = Append(calls, [video |-> f, output_dir |-> ClipOutputDir(root, recursive),
                             result |-> "raised"])
  /\ dir_pc' = "failing"
  /\ UNCHANGED <<recursive, dir_use_cache, last_clips, cache_files, dir_files, dir_runs,
                 walk, root, pending, clips, total_clips, exit_code, reported>>
  /\ UNCHANGED notDir

\* mutant of dir_EndOfDir: the walk goes on whatever the recursive flag
dir_EndOfDirNoBreak ==
  /\ dir_pc = "files" /\ pending = {}
  /\ dir_pc' = "walk"
  /\ UNCHANGED <<recursive, dir_use_cache, last_clips, cache_dirs, cache_files,
                 dir_files, dir_runs, walk, root,
                 pending, calls, clips, total_clips, exit_code, reported>>
  /\ UNCHANGED notDir

\* the files of root are done: "if not recursive: break"
dir_EndOfDir ==
  /\ dir_pc = "files" /\ pending = {}
  /\ dir_pc' = IF recursive THEN "walk" ELSE "return"
  /\ UNCHANGED <<recursive, dir_use_cache, last_clips, cache_dirs, cache_files,
                 dir_files, dir_runs, walk, root,
                 pending, calls, clips, total_clips, exit_code, reported>>
  /\ UNCHANGED notDir

\* os.walk is exhausted
walk_Done ==
  /\ dir_pc = "walk" /\ walk = <<>>
  /\ dir_pc' = "return"
  /\ UNCHANGED <<recursive, dir_use_cache, last_clips, cache_dirs, cache_files,
                 dir_files, dir_runs, walk, root,
                 pending, calls, clips, total_clips, exit_code, reported>>
  /\ UNCHANGED notDir

\* process_directory returns total_clips and main logs "Processing complete!"
main_Report ==
  /\ dir_pc = "return"
  /\ reported' = total_clips
  /\ dir_pc' = "reported"
  /\ UNCHANGED <<recursive, dir_use_cache, last_clips, cache_dirs, cache_files,
                 dir_files, dir_runs, walk, root,
                 pending, calls, clips, total_clips, exit_code>>
  /\ UNCHANGED notDir

\* main returns and the process ends with status 0
main_Exit ==
  /\ dir_pc = "reported"
  /\ exit_code' = 0
  /\ dir_pc' = "done"
  /\ UNCHANGED <<recursive, dir_use_cache, last_clips, cache_dirs, cache_files,
                 dir_files, dir_runs, walk, root,
                 pending, calls, clips, total_clips, reported>>
  /\ UNCHANGED notDir

\* KeyboardInterrupt outside the calls of process_video, up to the return
\* from main: it reaches "except KeyboardInterrupt" around main()
main_Interrupt ==
  /\ Running
  /\ dir_pc' = "interrupting"
  /\ UNCHANGED <<recursive, dir_use_cache, last_clips, cache_dirs, cache_files,
                 dir_files, dir_runs, walk, root, pending, calls, clips,
                 total_clips, exit_code, reported>>
  /\ UNCHANGED notDir

\* "except KeyboardInterrupt": logger.info, sys.exit(1)
main_Interrupted ==
  /\ dir_pc = "interrupting"
  /\ exit_code' = 1
  /\ dir_pc' = "interrupted"
  /\ UNCHANGED <<recursive, dir_use_cache, last_clips, cache_dirs, cache_files,
                 dir_files, dir_runs, walk, root, pending, calls, clips,
                 total_clips, reported>>
  /\ UNCHANGED notDir

\* "except Exception": logger.error, sys.exit(1)
main_Failed ==
  /\ dir_pc = "failing"
  /\ exit_code' = 1
  /\ dir_pc' = "failed"
  /\ UNCHANGED <<recursive, dir_use_cache, last_clips, cache_dirs, cache_files,
                 dir_files, dir_runs, walk, root, pending, calls, clips,
                 total_clips, reported>>
  /\ UNCHANGED notDir

\* KeyboardInterrupt inside either handler, where nothing catches it: the
\* process is ended by SIGINT
main_Killed ==
  /\ Handling
  /\ exit_code' = 0 - 2
  /\ dir_pc' = "killed"
  /\ UNCHANGED <<recursive, dir_use_cache, last_clips, cache_dirs, cache_files,
                 dir_files, dir_runs, walk, root, pending, calls, clips,
                 total_clips, reported>>
  /\ UNCHANGED notDir

IdlePv ==
  /\ mtime = 1000 /\ content = <<>>
  /\ cache = [p \in CachePaths |-> NoEntry]
  /\ files = {}
  /\ InitRun

\* an input tree and an empty output directory
InitDir == IdleDir /\ IdlePv /\ IdleAudio /\ IdleMusic

NextDir ==
  \/ \E rec \in BOOLEAN, uc \in BOOLEAN : main_Start(rec, uc)
  \/ walk_Yield
  \/ \E f \in Tree \cup cache_files : file_NotVideo(f)
  \/ \E f \in Tree, durs \in DirContents, stored \in BOOLEAN :
       \E fail \in SUBSET (1..Len(durs)) : \E left \in SUBSET fail :
         file_Video(f, durs, fail, left, stored)
  \/ file_Count
  \/ \E f \in Tree, durs \in DirContents, stored \in BOOLEAN :
       \E n \in 0..Len(durs) : \E fail \in SUBSET (1..n) : \E left \in SUBSET fail :
         file_VideoInterrupted(f, durs, fail, left, stored, n)
  \/ \E f \in Tree : file_VideoRaises(f)
  \/ dir_EndOfDir
  \/ walk_Done
  \/ main_Report
  \/ main_Exit
  \/ main_Interrupt
  \/ main_Interrupted
  \/ main_Failed
  \/ main_Killed

SpecDir == InitDir /\ [][NextDir]_vars

\* ------------------------------------------------------- the audio mixer
\* values of --volume, in percent
Volumes == {0, 20, 100}

\* An audio stream: where it comes from and the effects applied to it.
Original == [src |-> "original", fx |-> <<>>]
Music == [src |-> "music", fx |-> <<>>]
Fx(a, name, arg) == [a EXCEPT !.fx = Append(@, [fx |-> name, arg |-> arg])]
\* ".audio_fadeout(0.5).audio_fadein(0.5).volumex(w)", w in percent
Faded(a, w) == Fx(Fx(Fx(a, "audio_fadeout", 500), "audio_fadein", 500), "volumex", w)

\* mutant of process_audio: the mute flag is not read
process_audio_Unmuted(has, music, vol, mute) ==
  IF ~has
    THEN IF music THEN <<Fx(Fx(Music, "volumex", vol), "audio_normalize", -20)>>
         ELSE <<>>
  ELSE (<<Faded(Fx(Fx(Original, "audio_normalize", -12), "compand", 0), 100)>>)
       \o (IF music
             THEN <<Faded(Fx(Fx(Fx(Music, "volumex", vol), "audio_normalize", -20),
                             "highpass", 200), 20)>>
           ELSE <<>>)

\* process_audio(video_clip, music_clip, volume, mute_original): the streams
\* of the audio it returns, <<>> for None. has: video_clip.audio is not None;
\* music: music_clip is not None.
process_audio(has, music, vol, mute) ==
  IF ~has
    THEN IF music THEN <<Fx(Fx(Music, "volumex", vol), "audio_normalize", -20)>>
         ELSE <<>>
  ELSE LET normalized == IF ~mute THEN <<Fx(Original, "audio_normalize", -12)>> ELSE <<>>
           music_audio == IF music
                            THEN <<Fx(Fx(Fx(Music, "volumex", vol), "audio_normalize", -20),
                                      "highpass", 200)>>
                          ELSE <<>>
           original_audio == IF ~mute THEN <<Fx(normalized[1], "compand", 0)>>
                             ELSE normalized
       IN  (IF original_audio # <<>>
              THEN <<Faded(original_audio[1], IF mute THEN 80 ELSE 100)>>
            ELSE <<>>)
           \o (IF music_audio # <<>>
                 THEN <<Faded(music_audio[1], IF ~mute THEN 20 ELSE 100)>>
               ELSE <<>>)

\* "if final_audio: video_clip.set_audio(final_audio) else: without_audio()"
Attach(audio, current) == IF audio # <<>> THEN audio ELSE <<>>

\* one scene of one video: the inputs of the audio path
InitAudio ==
  /\ has_audio \in BOOLEAN /\ music_path \in {"none", "missing", "file"}
  /\ mute_original \in BOOLEAN /\ volume \in Volumes
  /\ music_clip = FALSE /\ final_audio = <<>> /\ clip_audio = <<>>
  /\ audio_pc = "load"
  /\ IdlePv /\ IdleDir /\ IdleMusic

\* "if music_path and os.path.exists(music_path)" is false
music_Absent ==
  /\ audio_pc = "load" /\ music_path # "file"
  /\ music_clip' = FALSE
  /\ audio_pc' = "extract"
  /\ UNCHANGED <<has_audio, music_path, mute_original, volume, final_audio, clip_audio>>
  /\ UNCHANGED notAudio

\* AudioFileClip(music_path) loads
music_Loaded ==
  /\ audio_pc = "load" /\ music_path = "file"
  /\ music_clip' = TRUE
  /\ audio_pc' = "extract"
  /\ UNCHANGED <<has_audio, music_path, mute_original, volume, final_audio, clip_audio>>
  /\ UNCHANGED notAudio

\* AudioFileClip(music_path) raises: logged, music_clip = None
music_LoadFails ==
  /\ audio_pc = "load" /\ music_path = "file"
  /\ music_clip' = FALSE
  /\ audio_pc' = "extract"
  /\ UNCHANGED <<has_audio, music_path, mute_original, volume, final_audio, clip_audio>>
  /\ UNCHANGED notAudio

\* VideoFileClip(video_path).subclip(...): the clip carries the video's audio
clip_Extract ==
  /\ audio_pc = "extract"
  /\ clip_audio' = IF has_audio THEN <<Original>> ELSE <<>>
  /\ audio_pc' = "mix"
  /\ UNCHANGED <<has_audio, music_path, music_clip, mute_original, volume, final_audio>>
  /\ UNCHANGED notAudio

\* final_audio = process_audio(...), then set_audio or without_audio
clip_Audio ==
  /\ audio_pc = "mix"
  /\ final_audio' = process_audio(has_audio, music_clip, volume, mute_original)
  /\ clip_audio' = Attach(final_audio', clip_audio)
  /\ audio_pc' = "done"
  /\ UNCHANGED <<has_audio, music_path, music_clip, mute_original, volume>>
  /\ UNCHANGED notAudio

\* an audio call raises inside the scene's try block: the scene is dropped
clip_AudioRaises ==
  /\ audio_pc = "mix"
  /\ audio_pc' = "failed"
  /\ UNCHANGED <<has_audio, music_path, music_clip, mute_original, volume,
                 final_audio, clip_audio>>
  /\ UNCHANGED notAudio

NextAudio ==
  \/ music_Absent
  \/ music_Loaded
  \/ music_LoadFails
  \/ clip_Extract
  \/ clip_Audio
  \/ clip_AudioRaises

SpecAudio == InitAudio /\ [][NextAudio]_vars

\* ------------------------------------------- the background-music download
\* len(MUSIC_URLS)
NumTracks == 3

MusicExists(n) == Rec("info", "Music file already exists", n)
Downloading(n) == Rec("info", "Downloading music track", n)
Downloaded(n) == Rec("info", "Downloaded", n)
DownloadFailed(n) == Rec("error", "Failed to download track", n)

\* main is started with --download-music or without, with --music or without;
\* the output directory may not exist yet, and tracks may be left from an
\* earlier run
InitMusic ==
  /\ output_dir_exists \in BOOLEAN /\ music_dir_exists \in BOOLEAN
  /\ music_dir_exists => output_dir_exists
  /\ tracks \in SUBSET (1..NumTracks)
  /\ tracks # {} => music_dir_exists
  /\ args_music \in {"none", "given"} /\ download_music \in BOOLEAN
  /\ track = 1 /\ fetched = {} /\ opened = {} /\ music_log = {}
  /\ music_pc = "main"
  /\ IdlePv /\ IdleDir /\ IdleAudio

\* "if args.download_music" is false: on to process_directory
main_NoDownload ==
  /\ music_pc = "main" /\ ~download_music
  /\ music_pc' = "process"
  /\ UNCHANGED <<output_dir_exists, music_dir_exists, tracks, track, args_music,
                 download_music, fetched, opened, music_log>>
  /\ UNCHANGED notMusic

\* download_background_music: music_dir.mkdir(exist_ok=True), the directory
\* or its parent exists
download_Mkdir ==
  /\ music_pc = "main" /\ download_music
  /\ music_dir_exists \/ output_dir_exists
  /\ music_dir_exists' = TRUE
  /\ music_pc' = "tracks"
  /\ UNCHANGED <<output_dir_exists, tracks, track, args_music, download_music,
                 fetched, opened, music_log>>
  /\ UNCHANGED notMusic

\* download_background_music: music_dir.mkdir(exist_ok=True) with no parent
\* directory raises FileNotFoundError, which leaves main
download_MkdirRaises ==
  /\ music_pc = "main" /\ download_music
  /\ ~music_dir_exists /\ ~output_dir_exists
  /\ music_pc' = "raised"
  /\ UNCHANGED <<output_dir_exists, music_dir_exists, tracks, track, args_music,
                 download_music, fetched, opened, music_log>>
  /\ UNCHANGED notMusic

InTracks == music_pc = "tracks" /\ track <= NumTracks

\* "if output_path.exists(): continue"
track_Exists ==
  /\ InTracks /\ track \in tracks
  /\ music_log' = music_log \cup {MusicExists(track)}
  /\ track' = track + 1
  /\ UNCHANGED <<output_dir_exists, music_dir_exists, tracks, args_music,
                 download_music, fetched, opened, music_pc>>
  /\ UNCHANGED notMusic

\* the track is fetched and written
track_Downloaded ==
  /\ InTracks /\ track \notin tracks
  /\ fetched' = fetched \cup {track}
  /\ opened' = opened \cup {track}
  /\ tracks' = tracks \cup {track}
  /\ music_log' = music_log \cup {Downloading(track), Downloaded(track)}
  /\ track' = track + 1
  /\ UNCHANGED <<output_dir_exists, music_dir_exists, args_music, download_music,
                 music_pc>>
  /\ UNCHANGED notMusic

\* requests.get or raise_for_status raises
track_NetworkFails ==
  /\ InTracks /\ track \notin tracks
  /\ fetched' = fetched \cup {track}
  /\ music_log' = music_log \cup {Downloading(track), DownloadFailed(track)}
  /\ track' = track + 1
  /\ UNCHANGED <<output_dir_exists, music_dir_exists, tracks, args_music,
                 download_music, opened, music_pc>>
  /\ UNCHANGED notMusic

\* open(output_path, "wb") raises, or f.write raises and leaves the file
track_WriteFails ==
  /\ InTracks /\ track \notin tracks
  /\ fetched' = fetched \cup {track}
  /\ \E left \in {{}, {track}} :
       /\ opened' = opened \cup left
       /\ tracks' = tracks \cup left
  /\ music_log' = music_log \cup {Downloading(track), DownloadFailed(track)}
  /\ track' = track + 1
  /\ UNCHANGED <<output_dir_exists, music_dir_exists, args_music, download_music,
                 music_pc>>
  /\ UNCHANGED notMusic

\* back in main: "if not args.music" and track_1.mp3 exists, it is the music
download_Done ==
  /\ music_pc = "tracks" /\ track > NumTracks
  /\ args_music' = IF args_music = "none" /\ 1 \in tracks THEN "track_1" ELSE args_music
  /\ music_pc' = "process"
  /\ UNCHANGED <<output_dir_exists, music_dir_exists, tracks, track,
                 download_music, fetched, opened, music_log>>
  /\ UNCHANGED notMusic

NextMusic ==
  \/ main_NoDownload
  \/ download_Mkdir
  \/ download_MkdirRaises
  \/ track_Exists
  \/ track_Downloaded
  \/ track_NetworkFails
  \/ track_WriteFails
  \/ download_Done

SpecMusic == InitMusic /\ [][NextMusic]_vars

\* ------------------------------------------------- claims about process_video
Min(a, b) == IF a < b THEN a ELSE b
PathOf(k) == OutputPath(OutDir, Video.base, k)
Returned(k) == \E n \in 1..Len(output_files) : output_files[n] = PathOf(k)
RenderedOf(k) == {r \in rendered : r.clip = k}
Span(r) == <<r.start, r.end>>
Length(sc) == sc[2] - sc[1]
Looping == pc \in {"scenes", "returned"}
\* the video of the scenario: scenes of 0.5 s, 8 s and 20 s, max_clip = 12 s
Scenario == scene_list = SceneList(<<500, 8000, 20000>>) /\ max_clip = 12000
NothingReused == \A k \in 1..Len(scene_list) : ClipExists(k) \notin log
NothingFailed == \A k \in 1..Len(scene_list) : SceneError(k) \notin log

\* C1 as stated: process_video skips every scene under 1 second, renders a
\* scene longer than max_clip as [start, start + max_clip], returns at most N
\* files, and the scenario yields exactly 2 clips (read for the runs in which
\* no scene fails to render).
C1_Original ==
  pc = "returned" =>
    /\ Len(output_files) <= Len(scene_list)
    /\ \A k \in 1..Len(scene_list) :
         /\ Length(scene_list[k]) < 1000 => ~Returned(k)
         /\ \A r \in RenderedOf(k) :
              Length(scene_list[k]) > max_clip =>
                Span(r) = <<scene_list[k][1], scene_list[k][1] + max_clip>>
    /\ (Scenario /\ NothingFailed) => Len(output_files) = 2

\* C1 amended: process_video returns at most N files. A scene whose output
\* file exists while caching is on is returned without being looked at,
\* whatever its length. Any other scene is skipped when end - start, taken
\* on doubles, is under 1 second (every scene under 1 second is, and so is
\* one of exactly a second whose bounds round unfavourably, such as
\* 0.4 s to 1.4 s), and is otherwise rendered as
\* [start, min(end, start + max_clip)] and returned, unless rendering it
\* raises. The scenario yields exactly the clips [0.5, 8.5] and [8.5, 20.5]
\* when no output is reused and no scene fails.
C1_Amended ==
  Looping =>
    /\ Len(output_files) <= Len(scene_list)
    /\ \A k \in 1..(i - 1) :
         LET sc == scene_list[k]
         IN  IF ClipExists(k) \in log
               THEN Returned(k) /\ RenderedOf(k) = {}
             ELSE IF Length(sc) < 1000 \/ TooShort(sc) \/ SceneError(k) \in log
               THEN ~Returned(k) /\ RenderedOf(k) = {}
             ELSE /\ Returned(k)
                  /\ \E r \in RenderedOf(k) : RenderedOf(k) = {r}
                  /\ \A r \in RenderedOf(k) :
                       Span(r) = <<sc[1], Min(sc[2], sc[1] + max_clip)>>
    /\ (pc = "returned" /\ Scenario /\ NothingReused /\ NothingFailed) =>
         /\ output_files = <<PathOf(2), PathOf(3)>>
         /\ {Span(r) : r \in rendered} = {<<500, 8500>>, <<8500, 20500>>}

\* the scenario ran to its two clips, the third truncated to 12 s
C1_Witness ==
  /\ pc = "returned" /\ Scenario /\ NothingReused /\ NothingFailed
  /\ Len(output_files) = 2
  /\ \E r \in RenderedOf(3) : r.end - r.start = 12000

\* the second of two runs with caching on, the source not modified in between
SecondCachedRun ==
  /\ prev.ran /\ prev.use_cache /\ prev.returned /\ ~prev.modified
  /\ use_cache /\ pc \notin {"idle"}

\* C2 as stated: after any first run with caching on, a second run with
\* caching on of the unmodified source never detects scenes again and never
\* renders a scene whose output file exists.
C2_Original ==
  SecondCachedRun =>
    /\ Detecting \notin log
    /\ \A r \in rendered : ~r.existed

\* C2 amended: in a second run with caching on of the unmodified source,
\* after a first run with caching on, detect_scenes returns the cached scene
\* list without detecting when the cache entry exists and loads; it detects
\* again, without raising, exactly when the entry does not exist (the first
\* run's cache write failed) or fails to open or deserialize, which is
\* logged. Every scene whose output file existed when the run started is
\* returned as it is and not rendered, and no existing file is rendered over.
C2_Amended ==
  (SecondCachedRun /\ pc # "lookup") =>
    /\ (prev.entry /\ LoadFailed \notin log) =>
         UsingCached \in log /\ Detecting \notin log /\ pc # "detect"
    /\ (~prev.entry \/ LoadFailed \in log) =>
         /\ pc = "detect" \/ Detecting \in log
         /\ pc \in {"detected", "scenes", "returned"} /\ ~touched =>
              scene_list = SceneList(content)
    /\ LoadFailed \in log => prev.entry
    /\ Looping =>
         \A k \in 1..(i - 1) :
           Norm(PathOf(k)) \in prev.files =>
             ClipExists(k) \in log /\ Returned(k) /\ RenderedOf(k) = {}
    /\ \A r \in rendered : ~r.existed

\* a second cached run returned, having loaded the entry the first run
\* stored and reused the first run's clip
C2_Witness ==
  /\ SecondCachedRun /\ prev.entry /\ pc = "returned"
  /\ UsingCached \in log /\ LoadFailed \notin log
  /\ \E k \in 1..Len(scene_list) : ClipExists(k) \in log

\* C3 as stated: whenever the source file's modification time changes, the
\* cache key computed by get_cache_path changes.
C3_KeyChanges ==
  [][mtime' # mtime =>
       get_cache_path(Video.dir, Video.name, mtime')
         # get_cache_path(Video.dir, Video.name, mtime)]_vars

\* C4: a scene whose rendering raised is logged and not returned, the loop
\* goes on to every later scene, and process_video returns normally with the
\* clips of the scenes that were rendered or reused.
C4_SceneFailureContained ==
  /\ \A k \in 1..Len(scene_list) :
       SceneError(k) \in log =>
         /\ Looping /\ k < i
         /\ ~Returned(k)
  /\ pc = "returned" /\ scene_list # <<>> =>
       /\ i = Len(scene_list) + 1
       /\ \A k \in 1..Len(scene_list) :
            Returned(k) <=> (Created(k) \in log \/ ClipExists(k) \in log)

\* scene 2 failed, scene 3 was rendered after it, and the call returned
C4_Witness ==
  /\ pc = "returned" /\ SceneError(2) \in log /\ Created(3) \in log
  /\ output_files = <<PathOf(3)>>

\* C5: with caching on, a cache entry that fails to load leads to a fresh
\* detection pass whose result is returned; a failed cache write is logged
\* and the fresh scene list is still returned; neither failure raises.
C5_CacheFailuresRecover ==
  /\ LoadFailed \in log =>
       /\ use_cache
       /\ pc = "detect" \/ Detecting \in log
       /\ (pc \in {"detected", "scenes", "returned"} /\ ~touched) =>
            scene_list = SceneList(content)
  /\ StoreFailed \in log =>
       /\ use_cache /\ Detecting \in log
       /\ pc \in {"detected", "scenes", "returned"}
       /\ ~touched => scene_list = SceneList(content)
  /\ pc = "raised" => scene_list = <<>> /\ CachedTo \notin log

\* a run whose cache entry failed to load and whose cache write failed
\* returned the clips of the freshly detected scenes
C5_Witness ==
  /\ pc = "returned" /\ LoadFailed \in log /\ StoreFailed \in log /\ ~touched
  /\ scene_list = SceneList(content) /\ output_files # <<>>


\* ------------------------------------- claims about process_directory and main
Called == {calls[n].video : n \in 1..Len(calls)}
VideosOfTree == {f \in Tree : f.ext # ".txt"}
ClipFiles == {Norm(c.path) : c \in clips}

\* C6: a scene-detection failure is caught by nothing below the top level:
\* the failing call of process_video is the last one of the run, no total is
\* reported, the process exits with a non-zero status (1 from the handler
\* around main(), or ended by SIGINT when an interrupt arrives inside that
\* handler), and the clips returned for the earlier videos are on disk.
C6_DetectionFailureAborts ==
  /\ \A n \in 1..Len(calls) :
       calls[n].result = "raised" =>
         /\ n = Len(calls)
         /\ reported = -1
         /\ \/ dir_pc = "failing" /\ exit_code = -1
            \/ dir_pc = "failed" /\ exit_code = 1
            \/ dir_pc = "killed" /\ exit_code = 0 - 2
         /\ \A c \in clips : Exists(c.path, dir_files)
  /\ dir_pc \in {"failing", "failed"} =>
       calls # <<>> /\ calls[Len(calls)].result = "raised"
  /\ exit_code = 0 => dir_pc = "done"

\* the run failed with clips of an earlier video written and a later video
\* of the tree never handed to process_video
C6_Witness ==
  /\ dir_pc = "failed" /\ exit_code = 1
  /\ \E c \in clips : Exists(c.path, dir_files)
  /\ VideosOfTree \ Called # {}

\* C7 as stated: two distinct (source video, scene index) pairs never map to
\* the same output path, and the total process_directory returns is the
\* number of distinct clip files the run produced or reused.
C7_DistinctOutputs ==
  /\ \A c1, c2 \in clips :
       (c1.video # c2.video \/ c1.clip # c2.clip) => Norm(c1.path) # Norm(c2.path)
  /\ dir_pc = "done" => reported = Cardinality(ClipFiles)

\* C8: with recursive off, process_video is called only for the videos
\* directly in input_dir, with output_dir as the clip directory; with
\* recursive on, a run that completes has called it once for every video of
\* the tree, with output_dir joined with the video's directory relative to
\* input_dir.
C8_Enumeration ==
  /\ \A n \in 1..Len(calls) :
       LET c == calls[n]
       IN  /\ c.video \in VideosOfTree
           /\ ~recursive => c.video.rel = <<>> /\ c.output_dir = <<"out">>
           /\ recursive =>
                c.output_dir = <<"out">> \o (IF c.video.rel = <<>> THEN <<".">>
                                             ELSE c.video.rel)
  /\ dir_pc = "done" =>
       /\ Called = {f \in VideosOfTree : recursive \/ f.rel = <<>>}
       /\ Len(calls) = Cardinality(Called)

\* a recursive run completed, one call writing into out/sub/deep
C8_Witness ==
  /\ dir_pc = "done" /\ recursive /\ Len(calls) = 3
  /\ \E n \in 1..Len(calls) :
       calls[n].video.rel = <<"sub", "deep">> /\ calls[n].output_dir = <<"out", "sub", "deep">>


\* ------------------------------------------------ claims about the audio mixer
\* C9: with mute_original, whether or not the video has audio and whether or
\* not music was loaded, the audio of the rendered clip has no stream that
\* comes from the original audio: it is the processed music alone when there
\* is music, and the clip has no audio when there is none.
C9_MuteDropsOriginal ==
  (audio_pc = "done" /\ mute_original) =>
    /\ \A n \in 1..Len(clip_audio) : clip_audio[n].src # "original"
    /\ music_clip =>
         /\ Len(clip_audio) = 1
         /\ clip_audio[1].src = "music" /\ clip_audio[1].fx # <<>>
         /\ has_audio => clip_audio[1].fx[Len(clip_audio[1].fx)] = [fx |-> "volumex", arg |-> 100]
    /\ ~music_clip => clip_audio = <<>>

\* a muted clip of a video with audio was rendered with no music: its audio
\* is stripped
C9_Witness ==
  /\ audio_pc = "done" /\ mute_original /\ has_audio /\ ~music_clip
  /\ final_audio = <<>> /\ clip_audio = <<>>


\* ------------------------------------------------- claims about the download
\* C10 as stated: download_background_music attempts each of the three
\* tracks in order, never fetching or overwriting a track whose file exists;
\* a failure is logged and neither stops the later attempts nor raises to
\* the caller; with no music file given and track 1 absent after the
\* downloads, the run proceeds with music disabled.
C10_DownloadRecovers ==
  /\ download_music => music_pc # "raised"
  /\ \A n \in 1..NumTracks :
       /\ MusicExists(n) \in music_log => n \notin fetched /\ n \notin opened
       /\ (download_music /\ music_pc = "process") =>
            MusicExists(n) \in music_log \/ n \in fetched
       /\ n \in fetched /\ n \notin tracks => DownloadFailed(n) \in music_log
  /\ (download_music /\ music_pc = "process" /\ 1 \notin tracks) =>
       args_music \in {"none", "given"}

====
